---- MODULE Spec2Model ----
(***************************************************************************)
(* Gesture pipeline of christmas-make-a-wish: the GestureController        *)
(* component (effect body, setupMediaPipe, startCamera, the two frame      *)
(* pumps, predictWebcam, the effect cleanup) and the App state it writes   *)
(* (mode, gestureState).                                                   *)
(*                                                                         *)
(* JavaScript is single threaded: every handler (effect body, promise      *)
(* continuation, frame callback, cleanup, click) runs to completion, so    *)
(* each is one action.  A session is one run of the effect: it owns the    *)
(* closure variables isMounted, handLandmarker and requestId.  The video   *)
(* element, its srcObject and stateHistory belong to the component and     *)
(* are shared by successive sessions.                                      *)
(***************************************************************************)
EXTENDS Integers, Sequences, FiniteSets, TLC

\* Number of runs of the effect in one component instance.
MaxSessions == 2
\* Longest streak of confirming frames that is explored.
MaxCount == 3
\* Wishes sent in a behaviour, and wishes in flight (and timers pending) at
\* a time.
MaxWishes == 3
MaxInFlight == 2

Sessions == 1..MaxSessions


\* HTMLMediaElement.readyState values offered to a pass (HAVE_METADATA,
\* HAVE_CURRENT_DATA, HAVE_ENOUGH_DATA).
ReadyStates == {1, 2, 4}

\* Coordinates are counted in twentieths of the frame: One is the 1.0 of
\* `1.0 - landmarks[9].x` and Half the 0.5 of `(handX - 0.5) * 2`.
One == 20
Half == 10

\* The values of landmarks[9].x and landmarks[9].y that are explored.
XS == {0, 5, 10, 15, 20}
YS == {6, 10}

Point(x, y) == [x |-> x, y |-> y]

\* The landmarks predictWebcam reads: wrist, thumb tip, index tip, index MCP,
\* middle tip, ring tip, pinky tip.
KeypointIds == {0, 4, 8, 9, 12, 16, 20}

Landmarks(wrist, thumbTip, indexTip, indexMCP, middleTip, ringTip, pinkyTip) ==
  [k \in KeypointIds |->
     CASE k = 0 -> wrist
       [] k = 4 -> thumbTip
       [] k = 8 -> indexTip
       [] k = 9 -> indexMCP
       [] k = 12 -> middleTip
       [] k = 16 -> ringTip
       [] OTHER -> pinkyTip]

\* Math.hypot.  Every hand that is explored has its keypoints placed so that
\* the distances the classifier takes are whole numbers of twentieths, which
\* makes the arithmetic exact.
Abs(d) == IF d < 0 THEN 0 - d ELSE d

Hypot(dx, dy) ==
  IF dx = 0 THEN Abs(dy)
  ELSE IF dy = 0 THEN Abs(dx)
  ELSE CHOOSE r \in 0..(2 * One) : r * r = dx * dx + dy * dy

\* `Math.hypot(landmarks[0].x - landmarks[9].x, landmarks[0].y - landmarks[9].y)`
PalmSize(lm) == Hypot(lm[0].x - lm[9].x, lm[0].y - lm[9].y)

\* The factor 0.65 of line 98, in hundredths, and 1.8 of line 102, in tenths.
PinchFactor == 65
OpenFactor == 18

\* A comparison that counts the boundary as a pinch.
CurrentPinchInclusive(lm) ==
  Hypot(lm[4].x - lm[8].x, lm[4].y - lm[8].y) * 100 <= PalmSize(lm) * PinchFactor

\* `pinchDist < (palmSize * 0.65)`
CurrentPinch(lm) ==
  LET pinchDist == Hypot(lm[4].x - lm[8].x, lm[4].y - lm[8].y)
  IN pinchDist * 100 < PalmSize(lm) * PinchFactor

\* The sum the reduce of line 101 builds, before the division by 4.
TipDistSum(lm) ==
  Hypot(lm[8].x - lm[0].x, lm[8].y - lm[0].y)
  + Hypot(lm[12].x - lm[0].x, lm[12].y - lm[0].y)
  + Hypot(lm[16].x - lm[0].x, lm[16].y - lm[0].y)
  + Hypot(lm[20].x - lm[0].x, lm[20].y - lm[0].y)

\* `avgTipDist > (palmSize * 1.8)` with avgTipDist = sum / 4, both sides
\* multiplied by 40.
CurrentOpen(lm) == TipDistSum(lm) * 10 > PalmSize(lm) * OpenFactor * 4

\* A hand held upright with its index MCP at (x, y): the wrist 5 below it,
\* the four finger tips 10 (stretched) or 5 (curled) above the wrist, the
\* thumb tip on the index tip (pinching) or 4 below it.
PosedHand(x, y, pinching, stretched) ==
  LET wrist == Point(x, y + 5)
      tip == Point(x, wrist.y - (IF stretched THEN 10 ELSE 5))
      thumb == IF pinching THEN tip ELSE Point(x, tip.y + 4)
  IN Landmarks(wrist, thumb, tip, Point(x, y), tip, tip, tip)

PosedHands ==
  {PosedHand(x, y, p, o) : x \in XS, y \in YS, p \in BOOLEAN, o \in BOOLEAN}

\* Hands around the two thresholds, the wrist at (14, 20).  The palm is 5 or
\* 20 long; the thumb tip is 0, 3, 4, 12, 13 or 14 away from the index tip
\* (0.65 * 20 = 13); the tips are 35, 36 or 37 away from the wrist in sum
\* (4 * 1.8 * 5 = 36).
ThresholdHands ==
  LET wrist == Point(14, 20)
  IN { Landmarks(wrist,
                 Point(tips[1].x + gap.x, tips[1].y + gap.y),
                 tips[1],
                 Point(wrist.x + palm.x, wrist.y + palm.y),
                 tips[2], Point(5, 20), Point(14, 11)) :
         palm \in {Point(0, -5), Point(-3, -4), Point(0, -20), Point(-12, -16)},
         gap \in {Point(0, 0), Point(-3, 0), Point(0, -4), Point(-12, 0),
                  Point(-13, 0), Point(-12, -5), Point(-14, 0)},
         tips \in {<<Point(14, 11), Point(14, 11)>>, <<Point(14, 10), Point(14, 11)>>,
                   <<Point(14, 11), Point(14, 12)>>} }

\* The value of the landmarks when detectForVideo found no hand or threw.
NoLandmarks == [k \in KeypointIds |-> Point(Half, Half)]

\* What one pass meets: the readyState of the video element, the outcome of
\* detectForVideo ("throw", no landmarks, landmarks of one hand), for a hand
\* its landmarks, and dt, by how much performance.now() has grown since the
\* pass before read it.
Inputs ==
  [rs : ReadyStates, det : {"hand"}, lm : PosedHands, dt : {1}]
  \cup [rs : ReadyStates, det : {"throw", "none"}, lm : {NoLandmarks}, dt : {1}]

\* The inputs whose hand is at the centre of the frame.
CentredInputs == {i \in Inputs : i.lm[9] = Point(Half, Half)}

\* The inputs whose hand is one of those around the thresholds, the video
\* element having data whenever a hand is in view.
ThresholdInputs ==
  [rs : {4}, det : {"hand"}, lm : ThresholdHands, dt : {1}]
  \cup [rs : ReadyStates, det : {"throw", "none"}, lm : {NoLandmarks}, dt : {1}]

\* performance.now() is monotonic and of limited resolution: two readings
\* that fall into one step of the clock are equal.  The inputs with the hand
\* at the centre, the clock having moved on (1) or not (0).
TimedInputs == {[i EXCEPT !.dt = d] : i \in CentredInputs, d \in {0, 1}}

VARIABLES
  hasRVFC,        \* 'requestVideoFrameCallback' in HTMLVideoElement.prototype
  videoRef,       \* videoRef.current: "el" or "null"
  srcObject,      \* video.srcObject: 0 (null) or the session whose stream it is
  pinchCount,     \* stateHistory.current.pinchCount
  openCount,      \* stateHistory.current.openCount
  mode,           \* App: mode
  gestureState,   \* App: gestureState
  pc,             \* per session: the await the activation chain is parked at
  isMounted,      \* per session: closure variable isMounted
  handLandmarker, \* per session: closure variable ("null" or "ref")
  requestId,      \* per session: 0 (undefined) or 1 (handle of the latest frameLoop)
  rvfc,           \* per session: processFrame callbacks registered on the video
  raf,            \* per session: frameLoop callbacks pending in the rAF queue
  model,          \* per session: the HandLandmarker instance: "none", "open", "closed"
  closeCalls,     \* per session: calls of close() on that instance
  stream,         \* per session: the MediaStream's track: "none", "live", "ended"
  stopCalls,      \* per session: calls of stop() on that track
  tornDown,       \* per session: the cleanup of that session has run
  loads,          \* per session: calls of HandLandmarker.createFromOptions
  run,            \* lengths of the current streaks of pinch and of open frames
  last,           \* the handler that ran last, and the calls it made
  wishes,         \* App: wishes, the wishes whose animation is in flight
  floatingWishes, \* App: floatingWishes
  flashTrigger,   \* App: flashTrigger
  singleWish,     \* per mounted SingleWish: startTimeRef is set, isCompletedRef
  timers,         \* the setTimeout(..., 0) callbacks that have not fired yet
  sent            \* wishes sent so far; the k-th wish has the id k

\* The state of the wishes: App's lists and counter, the refs of the
\* SingleWish components and the timer queue.
wishVars == <<wishes, floatingWishes, flashTrigger, singleWish, timers, sent>>

\* The state of the gesture pipeline, of the mode and of the gesture state.
gestureVars == <<hasRVFC, videoRef, srcObject, pinchCount, openCount, mode, gestureState,
                 pc, isMounted, handLandmarker, requestId, rvfc, raf, model, closeCalls,
                 stream, stopCalls, tornDown, loads, run>>

vars == <<gestureVars, last, wishVars>>

\* The fields of `last` that only a frame callback fills.
NoPass == [kind |-> "-", pinch |-> FALSE, open |-> FALSE, pub |-> <<>>, trig |-> <<>>,
           ok |-> TRUE, lm |-> NoLandmarks, dt |-> 1]

\* The fields of `last` for the continuation of an await: ok tells whether
\* the awaited promise was fulfilled.
Outcome(ok) == [NoPass EXCEPT !.ok = ok]

Range(f) == {f[k] : k \in DOMAIN f}

\* The refs of a SingleWish that has just mounted: startTimeRef is null and
\* isCompletedRef is false.
NewSingleWish == [started |-> FALSE, isCompleted |-> FALSE]

Handled(h, s, td, calls, p) ==
  [h |-> h, s |-> s, td |-> td, calls |-> calls, kind |-> p.kind,
   pinch |-> p.pinch, open |-> p.open, pub |-> p.pub, trig |-> p.trig,
   ok |-> p.ok, lm |-> p.lm, dt |-> p.dt]

DefaultGestureState ==
  [isHandDetected |-> FALSE, isPinching |-> FALSE, isOpen |-> FALSE,
   handPosition |-> [x |-> Half, y |-> Half], rotationOffset |-> 0]

Init ==
  /\ hasRVFC \in BOOLEAN
  /\ videoRef = "el"
  /\ srcObject = 0
  /\ pinchCount = 0
  /\ openCount = 0
  /\ mode = "TREE"
  /\ gestureState = DefaultGestureState
  /\ pc = [s \in Sessions |-> "idle"]
  /\ isMounted = [s \in Sessions |-> FALSE]
  /\ handLandmarker = [s \in Sessions |-> "null"]
  /\ requestId = [s \in Sessions |-> 0]
  /\ rvfc = [s \in Sessions |-> 0]
  /\ raf = [s \in Sessions |-> 0]
  /\ model = [s \in Sessions |-> "none"]
  /\ closeCalls = [s \in Sessions |-> 0]
  /\ stream = [s \in Sessions |-> "none"]
  /\ stopCalls = [s \in Sessions |-> 0]
  /\ tornDown = [s \in Sessions |-> FALSE]
  /\ loads = [s \in Sessions |-> 0]
  /\ run = [pinch |-> 0, open |-> 0]
  /\ last = Handled("init", 0, FALSE, <<>>, NoPass)
  /\ wishes = <<>>
  /\ floatingWishes = <<>>
  /\ flashTrigger = 0
  /\ singleWish = [k \in {} |-> NewSingleWish]
  /\ timers = <<>>
  /\ sent = 0

----------------------------------------------------------------------------
(* App: the two callbacks and the manual toggle.                           *)

\* A handler that stores the partial state instead of merging it.
handleGestureStateChangeReplace(old, newState) == newState

\* setGestureState(prev => ({...prev, ...newState}))
handleGestureStateChange(old, newState) ==
  [f \in DOMAIN old |-> IF f \in DOMAIN newState THEN newState[f] ELSE old[f]]

\* A trigger that yields to a mode the toggle may have set: it never leaves
\* EXPLODE.
handleModeTriggerKeepsExplode(old, newMode) == IF old = "EXPLODE" THEN old ELSE newMode

\* setMode(newMode)
handleModeTrigger(old, newMode) == newMode

\* setMode(prev => prev === TREE ? EXPLODE : TREE)
toggleModeOf(old) == IF old = "TREE" THEN "EXPLODE" ELSE "TREE"

\* A toggle that also puts the gesture state back to its default.
toggleModeClearsGesture ==
  /\ mode' = toggleModeOf(mode)
  /\ gestureState' = DefaultGestureState
  /\ last' = Handled("toggleMode", 0, FALSE, <<>>, NoPass)
  /\ UNCHANGED <<wishVars, hasRVFC, videoRef, srcObject, pinchCount, openCount,
                 pc, isMounted, handLandmarker, requestId, rvfc, raf, model,
                 closeCalls, stream, stopCalls, tornDown, run, loads>>

toggleMode ==
  /\ mode' = toggleModeOf(mode)
  /\ last' = Handled("toggleMode", 0, FALSE, <<>>, NoPass)
  /\ UNCHANGED <<wishVars, hasRVFC, videoRef, srcObject, pinchCount, openCount, gestureState,
                 pc, isMounted, handLandmarker, requestId, rvfc, raf, model,
                 closeCalls, stream, stopCalls, tornDown, run, loads>>

----------------------------------------------------------------------------
(* GestureController: activation (effect body, setupMediaPipe, startCamera) *)

\* Effect body: fresh closure variables, then setupMediaPipe() runs up to its
\* first await (FilesetResolver.forVisionTasks).
Activate(s) ==
  /\ pc[s] = "idle"
  /\ IF s = 1 THEN TRUE ELSE tornDown[s - 1]
  /\ videoRef = "el"
  /\ isMounted' = [isMounted EXCEPT ![s] = TRUE]
  /\ handLandmarker' = [handLandmarker EXCEPT ![s] = "null"]
  /\ requestId' = [requestId EXCEPT ![s] = 0]
  /\ pc' = [pc EXCEPT ![s] = "vision"]
  /\ last' = Handled("Activate", s, FALSE, <<"forVisionTasks">>, NoPass)
  /\ UNCHANGED <<wishVars, hasRVFC, videoRef, srcObject, pinchCount, openCount, mode,
                 gestureState, rvfc, raf, model, closeCalls, stream, stopCalls,
                 tornDown, run, loads>>

\* setupMediaPipe after `await FilesetResolver.forVisionTasks(...)`: on success
\* HandLandmarker.createFromOptions is called, on rejection the catch logs.
VisionResolved(s, ok) ==
  /\ pc[s] = "vision"
  /\ pc' = [pc EXCEPT ![s] = IF ok THEN "model" ELSE "end"]
  /\ loads' = [loads EXCEPT ![s] = IF ok THEN loads[s] + 1 ELSE loads[s]]
  /\ last' = Handled("VisionResolved", s, tornDown[s],
                     IF ok THEN <<"createFromOptions">> ELSE <<"console.error">>,
                     Outcome(ok))
  /\ UNCHANGED <<wishVars, hasRVFC, videoRef, srcObject, pinchCount, openCount, mode,
                 gestureState, isMounted, handLandmarker, requestId, rvfc, raf,
                 model, closeCalls, stream, stopCalls, tornDown, run>>

\* `if (isMounted) startCamera(handLandmarker)` and, inside startCamera,
\* `if (!videoRef.current) return`: TRUE when getUserMedia gets called.
StartsCamera(mounted, ref) == mounted /\ ref # "null"

\* A catch that loads the model again when the load has failed.
ModelResolvedRetries(s, ok) ==
  /\ pc[s] = "model"
  /\ IF ok
       THEN /\ handLandmarker' = [handLandmarker EXCEPT ![s] = "ref"]
            /\ model' = [model EXCEPT ![s] = "open"]
            /\ pc' = [pc EXCEPT ![s] =
                        IF StartsCamera(isMounted[s], videoRef) THEN "stream" ELSE "end"]
            /\ last' = Handled("ModelResolved", s, tornDown[s],
                               IF StartsCamera(isMounted[s], videoRef)
                                 THEN <<"getUserMedia">> ELSE <<>>, Outcome(ok))
            /\ UNCHANGED loads
       ELSE /\ loads' = [loads EXCEPT ![s] = loads[s] + 1]
            /\ last' = Handled("ModelResolved", s, tornDown[s],
                               <<"console.error", "createFromOptions">>, Outcome(ok))
            /\ UNCHANGED <<pc, handLandmarker, model>>
  /\ UNCHANGED <<wishVars, hasRVFC, videoRef, srcObject, pinchCount, openCount, mode,
                 gestureState, isMounted, requestId, rvfc, raf, closeCalls,
                 stream, stopCalls, tornDown, run>>

\* startCamera called after the try / catch, whether the load failed or not.
ModelResolvedStartsAnyway(s, ok) ==
  /\ pc[s] = "model"
  /\ IF ok
       THEN /\ handLandmarker' = [handLandmarker EXCEPT ![s] = "ref"]
            /\ model' = [model EXCEPT ![s] = "open"]
       ELSE UNCHANGED <<handLandmarker, model>>
  /\ pc' = [pc EXCEPT ![s] =
              IF StartsCamera(isMounted[s], videoRef) THEN "stream" ELSE "end"]
  /\ last' = Handled("ModelResolved", s, tornDown[s],
                     (IF ok THEN <<>> ELSE <<"console.error">>) \o
                     (IF StartsCamera(isMounted[s], videoRef)
                        THEN <<"getUserMedia">> ELSE <<>>), Outcome(ok))
  /\ UNCHANGED <<wishVars, hasRVFC, videoRef, srcObject, pinchCount, openCount, mode,
                 gestureState, isMounted, requestId, rvfc, raf, closeCalls,
                 stream, stopCalls, tornDown, run, loads>>

\* setupMediaPipe after `handLandmarker = await createFromOptions(...)`.
ModelResolved(s, ok) ==
  /\ pc[s] = "model"
  /\ IF ok
       THEN /\ handLandmarker' = [handLandmarker EXCEPT ![s] = "ref"]
            /\ model' = [model EXCEPT ![s] = "open"]
            /\ pc' = [pc EXCEPT ![s] =
                        IF StartsCamera(isMounted[s], videoRef) THEN "stream" ELSE "end"]
            /\ last' = Handled("ModelResolved", s, tornDown[s],
                               IF StartsCamera(isMounted[s], videoRef)
                                 THEN <<"getUserMedia">> ELSE <<>>, Outcome(ok))
       ELSE /\ pc' = [pc EXCEPT ![s] = "end"]
            /\ last' = Handled("ModelResolved", s, tornDown[s], <<"console.error">>, Outcome(ok))
            /\ UNCHANGED <<handLandmarker, model>>
  /\ UNCHANGED <<wishVars, hasRVFC, videoRef, srcObject, pinchCount, openCount, mode,
                 gestureState, isMounted, requestId, rvfc, raf, closeCalls,
                 stream, stopCalls, tornDown, run, loads>>

\* startCamera after `const stream = await getUserMedia(...)`: the stream is
\* attached to the video element and play() is called; a null videoRef.current
\* throws inside the try, and a rejection goes to the same catch.
StreamResolved(s, ok) ==
  /\ pc[s] = "stream"
  /\ IF ok
       THEN /\ stream' = [stream EXCEPT ![s] = "live"]
            /\ IF videoRef = "null"
                 THEN /\ pc' = [pc EXCEPT ![s] = "end"]
                      /\ last' = Handled("StreamResolved", s, tornDown[s],
                                         <<"console.error">>, Outcome(ok))
                      /\ UNCHANGED srcObject
                 ELSE /\ srcObject' = s
                      /\ pc' = [pc EXCEPT ![s] = "play"]
                      /\ last' = Handled("StreamResolved", s, tornDown[s],
                                         <<"play">>, Outcome(ok))
       ELSE /\ pc' = [pc EXCEPT ![s] = "end"]
            /\ last' = Handled("StreamResolved", s, tornDown[s], <<"console.error">>, Outcome(ok))
            /\ UNCHANGED <<stream, srcObject>>
  /\ UNCHANGED <<wishVars, hasRVFC, videoRef, pinchCount, openCount, mode, gestureState,
                 isMounted, handLandmarker, requestId, rvfc, raf, model,
                 closeCalls, stopCalls, tornDown, run, loads>>

\* The pump started in a finally: a rejected play() does not stop it.
PlayResolvedStartsAnyway(s, ok) ==
  /\ pc[s] = "play"
  /\ IF hasRVFC /\ videoRef = "null"
       THEN /\ pc' = [pc EXCEPT ![s] = "end"]
            /\ last' = Handled("PlayResolved", s, tornDown[s], <<"console.error">>,
                               Outcome(ok))
            /\ UNCHANGED <<rvfc, raf, requestId>>
       ELSE /\ pc' = [pc EXCEPT ![s] = "pump"]
            /\ IF hasRVFC
                 THEN /\ rvfc' = [rvfc EXCEPT ![s] = rvfc[s] + 1]
                      /\ last' = Handled("PlayResolved", s, tornDown[s],
                                         <<"requestVideoFrameCallback">>, Outcome(ok))
                      /\ UNCHANGED <<raf, requestId>>
                 ELSE /\ raf' = [raf EXCEPT ![s] = raf[s] + 1]
                      /\ requestId' = [requestId EXCEPT ![s] = 1]
                      /\ last' = Handled("PlayResolved", s, tornDown[s],
                                         <<"requestAnimationFrame">>, Outcome(ok))
                      /\ UNCHANGED rvfc
  /\ UNCHANGED <<wishVars, hasRVFC, videoRef, srcObject, pinchCount, openCount, mode,
                 gestureState, isMounted, handLandmarker, model, closeCalls,
                 stream, stopCalls, tornDown, run, loads>>

\* startCamera after `await videoRef.current.play()`: the first callback of the
\* pump is registered, with requestVideoFrameCallback where the platform has
\* it and with requestAnimationFrame otherwise.
PlayResolved(s, ok) ==
  /\ pc[s] = "play"
  /\ IF ~ok \/ (hasRVFC /\ videoRef = "null")
       THEN /\ pc' = [pc EXCEPT ![s] = "end"]
            /\ last' = Handled("PlayResolved", s, tornDown[s], <<"console.error">>, Outcome(ok))
            /\ UNCHANGED <<rvfc, raf, requestId>>
       ELSE /\ pc' = [pc EXCEPT ![s] = "pump"]
            /\ IF hasRVFC
                 THEN /\ rvfc' = [rvfc EXCEPT ![s] = rvfc[s] + 1]
                      /\ last' = Handled("PlayResolved", s, tornDown[s],
                                         <<"requestVideoFrameCallback">>, Outcome(ok))
                      /\ UNCHANGED <<raf, requestId>>
                 ELSE /\ raf' = [raf EXCEPT ![s] = raf[s] + 1]
                      /\ requestId' = [requestId EXCEPT ![s] = 1]
                      /\ last' = Handled("PlayResolved", s, tornDown[s],
                                         <<"requestAnimationFrame">>, Outcome(ok))
                      /\ UNCHANGED rvfc
  /\ UNCHANGED <<wishVars, hasRVFC, videoRef, srcObject, pinchCount, openCount, mode,
                 gestureState, isMounted, handLandmarker, model, closeCalls,
                 stream, stopCalls, tornDown, run, loads>>

----------------------------------------------------------------------------
(* GestureController: one pipeline pass (predictWebcam) and the two pumps.  *)

\* A streak counter that is not reset by a non-confirming frame.
NextCountNoReset(c, count) == IF c THEN count + 1 ELSE count

\* A counter that stops at the threshold of the decision.
NextCountSaturating(c, count) == IF c THEN (IF count >= 2 THEN 2 ELSE count + 1) ELSE 0

\* `if (c) count++; else count = 0`
NextCount(c, count) == IF c THEN count + 1 ELSE 0

\* A decision that trusts the first confirming frame.
StableAtOne(count) == count >= 1

\* A decision that holds on the second confirming frame only.
StableOnlyAtTwo(count) == count = 2

\* `count >= 2`
Stable(count) == count >= 2

\* The pinch branch alone: the else-if is missing.
ModeTriggersPinchOnly(isPinching, isOpen) ==
  IF isPinching THEN <<"TREE">> ELSE <<>>

\* Two independent ifs instead of if / else-if.
ModeTriggersBoth(isPinching, isOpen) ==
  (IF isPinching THEN <<"TREE">> ELSE <<>>) \o (IF isOpen THEN <<"EXPLODE">> ELSE <<>>)

\* The two branches in the other order: open palm first.
ModeTriggersOpenFirst(isPinching, isOpen) ==
  IF isOpen THEN <<"EXPLODE">> ELSE IF isPinching THEN <<"TREE">> ELSE <<>>

\* `if (isPinching) onModeTrigger(TREE); else if (isOpen) onModeTrigger(EXPLODE)`
\* as the sequence of modes onModeTrigger is called with.
ModeTriggers(isPinching, isOpen) ==
  IF isPinching THEN <<"TREE">> ELSE IF isOpen THEN <<"EXPLODE">> ELSE <<>>

\* A hand position that is not mirrored.
HandXUnmirrored(x) == x

\* `const handX = 1.0 - landmarks[9].x`
HandX(x) == One - x

\* `(handX - 0.5) * 2`
RotationOffset(handX) == (handX - Half) * 2

\* A no-hand branch that forgets to reset openCount.
NoHandCountsKeepOpen(pCount, oCount) == [pinchCount |-> 0, openCount |-> oCount]

\* `stateHistory.current.pinchCount = 0; stateHistory.current.openCount = 0`
NoHandCounts(pCount, oCount) == [pinchCount |-> 0, openCount |-> 0]

\* A no-hand branch that falls back to the tree.
NoHandTriggersTree == <<"TREE">>

\* The no-hand branch calls onStateChange and resets the counters; it makes
\* no call of onModeTrigger.
NoHandTriggers == <<>>

\* An early return that does not look at readyState.
PassRunsAnyReadyState(ref, mounted, rs) == ref # "null" /\ mounted

\* The early return of predictWebcam, negated: TRUE when the pass goes on.
PassRuns(ref, mounted, rs) == ref # "null" /\ mounted /\ rs >= 2

\* predictWebcam: what one call does to the counters, and the partial states
\* and modes it hands to onStateChange and onModeTrigger, in call order.
PredictWebcam(ref, mounted, in, pCount, oCount) ==
  IF ~PassRuns(ref, mounted, in.rs)
    THEN [kind |-> "skip", calls |-> <<>>, pinchCount |-> pCount,
          openCount |-> oCount, pub |-> <<>>, trig |-> <<>>,
          currentPinch |-> FALSE, currentOpen |-> FALSE]
  ELSE IF in.det = "throw"
    THEN [kind |-> "throw", calls |-> <<"detectForVideo">>, pinchCount |-> pCount,
          openCount |-> oCount, pub |-> <<>>, trig |-> <<>>,
          currentPinch |-> FALSE, currentOpen |-> FALSE]
  ELSE IF in.det = "hand"
    THEN LET currentPinch == CurrentPinch(in.lm)
             currentOpen == CurrentOpen(in.lm)
             p == NextCount(currentPinch, pCount)
             o == NextCount(currentOpen, oCount)
             isPinching == Stable(p)
             isOpen == Stable(o)
             handX == HandX(in.lm[9].x)
             trig == ModeTriggers(isPinching, isOpen)
         IN [kind |-> "hand",
             calls |-> <<"detectForVideo", "onStateChange">>
                          \o [k \in 1..Len(trig) |-> "onModeTrigger"],
             pinchCount |-> p, openCount |-> o,
             pub |-> <<[isHandDetected |-> TRUE, isPinching |-> isPinching,
                        isOpen |-> isOpen,
                        handPosition |-> [x |-> handX, y |-> in.lm[9].y],
                        rotationOffset |-> RotationOffset(handX)]>>,
             trig |-> trig,
             currentPinch |-> currentPinch, currentOpen |-> currentOpen]
  ELSE [kind |-> "nohand",
        calls |-> <<"detectForVideo", "onStateChange">>
                     \o [k \in 1..Len(NoHandTriggers) |-> "onModeTrigger"],
        pinchCount |-> NoHandCounts(pCount, oCount).pinchCount,
        openCount |-> NoHandCounts(pCount, oCount).openCount,
        pub |-> <<[isHandDetected |-> FALSE]>>, trig |-> NoHandTriggers,
        currentPinch |-> FALSE, currentOpen |-> FALSE]

\* App state after the callbacks of one pass have been applied in order.
RECURSIVE ApplyPub(_, _)
ApplyPub(gs, pub) ==
  IF pub = <<>> THEN gs
  ELSE ApplyPub(handleGestureStateChange(gs, Head(pub)), Tail(pub))

RECURSIVE ApplyTrig(_, _)
ApplyTrig(m, trig) ==
  IF trig = <<>> THEN m
  ELSE ApplyTrig(handleModeTrigger(m, Head(trig)), Tail(trig))

\* The try / catch around the body of predictWebcam: nothing escapes it.
\* (The mutant lets the exception of detectForVideo through.)
EscapesUncaught(kind) == kind = "throw"

Escapes(kind) == FALSE

\* A pump that asks for the next frame before it runs the pass.
PumpCallsScheduleFirst(passCalls, reg) == reg \o passCalls

\* processFrame / frameLoop call predictWebcam first and register the next
\* callback afterwards.
PumpCalls(passCalls, reg) == passCalls \o reg

\* A pump that runs one pass and stops.
RegistersNone(again) == 0

\* A pump that registers the next callback twice.
RegistersTwice(again) == IF again THEN 2 ELSE 0

\* The number of callbacks one run of processFrame / frameLoop registers.
Registers(again) == IF again THEN 1 ELSE 0

\* A frame is presented to the video element only while a live stream is
\* attached to it; the animation-frame queue runs whatever is pending.
CallbackDue(s) ==
  IF hasRVFC
    THEN rvfc[s] > 0 /\ srcObject # 0 /\ stream[srcObject] = "live"
    ELSE raf[s] > 0

\* processFrame / frameLoop: the registered callback fires (and is thereby
\* consumed); a live session runs one pass and registers the next callback.
FrameCallback(s, in) ==
  /\ CallbackDue(s)
  /\ LET r == PredictWebcam(videoRef, isMounted[s], in, pinchCount, openCount)
         counted == r.kind \in {"hand", "nohand"}
         throws == isMounted[s] /\ (Escapes(r.kind) \/ (hasRVFC /\ videoRef = "null"))
         again == isMounted[s] /\ ~throws
         reg == IF hasRVFC THEN "requestVideoFrameCallback" ELSE "requestAnimationFrame"
         info == [kind |-> IF ~isMounted[s] THEN "dead"
                           ELSE IF videoRef = "null" THEN "noref"
                           ELSE IF in.rs < 2 THEN "skip"
                           ELSE r.kind,
                  pinch |-> r.currentPinch, open |-> r.currentOpen,
                  pub |-> r.pub, trig |-> r.trig, ok |-> TRUE,
                  lm |-> IF r.kind = "hand" THEN in.lm ELSE NoLandmarks,
                  dt |-> IF r.kind = "skip" THEN 1 ELSE in.dt]
     IN /\ r.pinchCount <= MaxCount
        /\ r.openCount <= MaxCount
        /\ pinchCount' = r.pinchCount
        /\ openCount' = r.openCount
        /\ gestureState' = ApplyPub(gestureState, r.pub)
        /\ mode' = ApplyTrig(mode, r.trig)
        /\ run' = IF counted
                    THEN [pinch |-> IF r.currentPinch THEN run.pinch + 1 ELSE 0,
                          open |-> IF r.currentOpen THEN run.open + 1 ELSE 0]
                    ELSE run
        /\ rvfc' = [rvfc EXCEPT ![s] =
                     IF hasRVFC THEN rvfc[s] - 1 + Registers(again) ELSE rvfc[s]]
        /\ raf' = [raf EXCEPT ![s] =
                    IF hasRVFC THEN raf[s] ELSE raf[s] - 1 + Registers(again)]
        /\ requestId' = [requestId EXCEPT ![s] =
                           IF ~hasRVFC /\ again THEN 1 ELSE requestId[s]]
        /\ last' = Handled("FrameCallback", s, tornDown[s],
                           IF throws THEN r.calls \o <<"throw">>
                           ELSE PumpCalls(r.calls, [k \in 1..Registers(again) |-> reg]),
                           info)
  /\ UNCHANGED <<wishVars, hasRVFC, videoRef, srcObject, pc, isMounted, handLandmarker,
                 model, closeCalls, stream, stopCalls, tornDown, loads>>

----------------------------------------------------------------------------
(* GestureController: the effect cleanup.                                   *)

\* `videoRef.current && videoRef.current.srcObject`
HasStream(ref, src) == ref # "null" /\ src # 0

\* `if (handLandmarker)`
HasModel(hl) == hl # "null"

\* The part of the state the cleanup of session s reads or writes.
CleanupView(s) ==
  [isMounted |-> isMounted[s], requestId |-> requestId[s], raf |-> raf[s],
   videoRef |-> videoRef, srcObject |-> srcObject, stream |-> stream,
   stopCalls |-> stopCalls, handLandmarker |-> handLandmarker[s],
   model |-> model[s], closeCalls |-> closeCalls[s], calls |-> <<>>]

\* A cleanup that cancels the animation frame but leaves isMounted alone.
CleanupPumpKeepsMounted(v) ==
  [v EXCEPT !.raf = IF v.requestId # 0 /\ v.raf > 0 THEN v.raf - 1 ELSE v.raf,
            !.calls = v.calls \o <<"cancelAnimationFrame">>]

\* `isMounted = false; cancelAnimationFrame(requestId)`: the pending frameLoop
\* whose handle requestId holds is removed from the queue.
CleanupPump(v) ==
  [v EXCEPT !.isMounted = FALSE,
            !.raf = IF v.requestId # 0 /\ v.raf > 0 THEN v.raf - 1 ELSE v.raf,
            !.calls = v.calls \o <<"cancelAnimationFrame">>]

\* `srcObject.getTracks().forEach(track => track.stop())` behind its guard;
\* reading srcObject of a null element, or getTracks of null, throws.
CleanupTracks(v) ==
  IF ~HasStream(v.videoRef, v.srcObject) THEN v
  ELSE IF v.videoRef = "null" \/ v.srcObject = 0
    THEN [v EXCEPT !.calls = v.calls \o <<"throw">>]
  ELSE [v EXCEPT !.stream[v.srcObject] = "ended",
                 !.stopCalls[v.srcObject] = v.stopCalls[v.srcObject] + 1,
                 !.calls = v.calls \o <<"stop">>]

\* `if (handLandmarker) handLandmarker.close()`; calling close of null throws.
CleanupModel(v) ==
  IF ~HasModel(v.handLandmarker) THEN v
  ELSE IF v.handLandmarker = "null"
    THEN [v EXCEPT !.calls = v.calls \o <<"throw">>]
  ELSE [v EXCEPT !.model = "closed", !.closeCalls = v.closeCalls + 1,
                 !.calls = v.calls \o <<"close">>]

Threw(v) == \E k \in 1..Len(v.calls) : v.calls[k] = "throw"

\* The cleanup function, statement by statement; a throw ends it.
Cleanup(v) ==
  LET a == CleanupPump(v)
      b == CleanupTracks(a)
  IN IF Threw(b) THEN b ELSE CleanupModel(b)

\* React runs the cleanup of session s: once per session, either because the
\* effect is about to run again (the video element stays attached to the ref)
\* or because the component unmounts (detached: the ref of the removed video
\* element has been cleared before the cleanup runs).
Teardown(s, detached) ==
  /\ pc[s] # "idle"
  /\ ~tornDown[s]
  /\ LET v == Cleanup([CleanupView(s) EXCEPT
                         !.videoRef = IF detached THEN "null" ELSE videoRef])
     IN /\ videoRef' = v.videoRef
        /\ isMounted' = [isMounted EXCEPT ![s] = v.isMounted]
        /\ raf' = [raf EXCEPT ![s] = v.raf]
        /\ stream' = v.stream
        /\ stopCalls' = v.stopCalls
        /\ model' = [model EXCEPT ![s] = v.model]
        /\ closeCalls' = [closeCalls EXCEPT ![s] = v.closeCalls]
        /\ last' = Handled("Teardown", s, FALSE, v.calls, NoPass)
  /\ tornDown' = [tornDown EXCEPT ![s] = TRUE]
  /\ UNCHANGED <<wishVars, hasRVFC, srcObject, pinchCount, openCount, mode, gestureState,
                 pc, handLandmarker, requestId, rvfc, run, loads>>

----------------------------------------------------------------------------

\* The component over all its sessions.  The lifecycle does not read the
\* position of the hand, so the hand is kept at the centre of the frame here.
Next ==
  \/ toggleMode
  \/ \E s \in Sessions : Activate(s)
  \/ \E s \in Sessions, ok \in BOOLEAN : VisionResolved(s, ok)
  \/ \E s \in Sessions, ok \in BOOLEAN : ModelResolved(s, ok)
  \/ \E s \in Sessions, ok \in BOOLEAN : StreamResolved(s, ok)
  \/ \E s \in Sessions, ok \in BOOLEAN : PlayResolved(s, ok)
  \/ \E s \in Sessions, in \in CentredInputs : FrameCallback(s, in)
  \/ \E s \in Sessions, detached \in BOOLEAN : Teardown(s, detached)

Spec == Init /\ [][Next]_vars

\* The component as App mounts it: both callbacks are memoized with empty
\* dependency lists, so the effect runs once.  The hand moves over the grid.
NextOnce ==
  \/ toggleMode
  \/ Activate(1)
  \/ \E ok \in BOOLEAN : VisionResolved(1, ok)
  \/ \E ok \in BOOLEAN : ModelResolved(1, ok)
  \/ \E ok \in BOOLEAN : StreamResolved(1, ok)
  \/ \E ok \in BOOLEAN : PlayResolved(1, ok)
  \/ \E in \in Inputs : FrameCallback(1, in)
  \/ \E detached \in BOOLEAN : Teardown(1, detached)

SpecOnce == Init /\ [][NextOnce]_vars

\* The platform delivers a registered callback: a video frame is presented
\* while the stream plays, an animation frame comes round.
SpecFair == SpecOnce /\ WF_vars(\E in \in Inputs : FrameCallback(1, in))

\* The same single activation, shown the hands around the two thresholds of
\* the classifier.
NextThreshold ==
  \/ toggleMode
  \/ Activate(1)
  \/ \E ok \in BOOLEAN : VisionResolved(1, ok)
  \/ \E ok \in BOOLEAN : ModelResolved(1, ok)
  \/ \E ok \in BOOLEAN : StreamResolved(1, ok)
  \/ \E ok \in BOOLEAN : PlayResolved(1, ok)
  \/ \E in \in ThresholdInputs : FrameCallback(1, in)
  \/ \E detached \in BOOLEAN : Teardown(1, detached)

SpecThreshold == Init /\ [][NextThreshold]_vars

\* The same single activation with the clock of performance.now().
NextClock ==
  \/ toggleMode
  \/ Activate(1)
  \/ \E ok \in BOOLEAN : VisionResolved(1, ok)
  \/ \E ok \in BOOLEAN : ModelResolved(1, ok)
  \/ \E ok \in BOOLEAN : StreamResolved(1, ok)
  \/ \E ok \in BOOLEAN : PlayResolved(1, ok)
  \/ \E in \in TimedInputs : FrameCallback(1, in)
  \/ \E detached \in BOOLEAN : Teardown(1, detached)

SpecClock == Init /\ [][NextClock]_vars

----------------------------------------------------------------------------
(* App and WishSystem: the wishes in flight and the floating wishes.       *)

\* The texts of the pools a refresh draws from.  A text carries its city
\* ("User from <city>:"): the tens digit stands for it.
Pools == {<<11, 12, 21>>, <<11, 21, 11>>, <<11, 21, 31, 41, 51, 61, 62>>}

\* The random numbers a refresh draws.
Draws == {0, 1}

City(text) == text \div 10

\* A wish: a sent wish has a positive id and the text 0, a wish loaded by a
\* refresh has the id built from its index.
toWish(text, index) == [id |-> 0 - index, text |-> text]

\* The wishes a refresh picks at most.
PickLimit == 5

\* The floating wishes kept at most.
FloatingLimit == 15

Min(a, b) == IF a < b THEN a ELSE b

\* The elements of q in the order of their first appearance (the keys of
\* the Map).
RECURSIVE Keys(_)
Keys(q) ==
  IF q = <<>> THEN <<>>
  ELSE LET init == Keys(SubSeq(q, 1, Len(q) - 1))
           x == q[Len(q)]
       IN IF x \in Range(init) THEN init ELSE Append(init, x)

\* `sort(() => Math.random() - 0.5)`: a permutation, here the rotation by r.
Shuffle(q, r) ==
  [k \in 1..Len(q) |-> q[((k - 1 + r) % Len(q)) + 1]]

\* `for (const item of shuffled) { if (selected.length >= 5) break;
\*  if (!selected.includes(item)) selected.push(item); }`
RECURSIVE Fill(_, _)
Fill(selected, shuffled) ==
  IF shuffled = <<>> \/ Len(selected) >= PickLimit THEN selected
  ELSE Fill(IF Head(shuffled) \in Range(selected) THEN selected
            ELSE Append(selected, Head(shuffled)),
            Tail(shuffled))

\* A pick that takes one wish of every city, however many there are.
pickFiveFromPoolEveryCity(pool, r, k) ==
  LET cities == Shuffle(Keys([i \in 1..Len(pool) |-> City(pool[i])]), r)
  IN [i \in 1..Len(cities) |->
        LET arr == SelectSeq(pool, LAMBDA t : City(t) = cities[i])
        IN arr[(k % Len(arr)) + 1]]

\* pickFiveFromPool: one wish of each city, the cities in random order,
\* until there are 5; then the pool in random order, until there are 5.
pickFiveFromPool(pool, r, k) ==
  LET cities == Shuffle(Keys([i \in 1..Len(pool) |-> City(pool[i])]), r)
      perCity == [i \in 1..Min(PickLimit, Len(cities)) |->
                    LET arr == SelectSeq(pool, LAMBDA t : City(t) = cities[i])
                    IN arr[(k % Len(arr)) + 1]]
  IN IF Len(perCity) < PickLimit THEN Fill(perCity, Shuffle(pool, r))
     ELSE perCity

\* A list that keeps the oldest entries.
KeepOldest(next) ==
  IF Len(next) > FloatingLimit THEN SubSeq(next, 1, FloatingLimit) ELSE next

\* A list that is never cut.
KeepAll(next) == next

\* `next.length > 15 ? next.slice(next.length - 15) : next`
KeepNewest(next) ==
  IF Len(next) > FloatingLimit
  THEN SubSeq(next, Len(next) - FloatingLimit + 1, Len(next))
  ELSE next

Ids(q) == {q[k].id : k \in 1..Len(q)}

\* handleWishComplete: the three functional updates, in the order of the
\* calls.
handleWishComplete(completedWish) ==
  [wishes         |-> SelectSeq(wishes, LAMBDA w : w.id # completedWish.id),
   floatingWishes |-> KeepNewest(Append(floatingWishes, completedWish)),
   flashTrigger   |-> flashTrigger + 1]

\* The refs of the SingleWish components that a list of wishes keeps
\* mounted: a component keeps its refs, a new one starts with fresh ones.
Mounted(list) ==
  [k \in Ids(list) |-> IF k \in DOMAIN singleWish THEN singleWish[k] ELSE NewSingleWish]

\* handleSendWish: the new wish joins the wishes in flight.  It is sent
\* while fewer than limit wishes have been sent, fewer than inFlight are in
\* flight and fewer than inFlight timers are pending.
handleSendWish(limit, inFlight) ==
  /\ sent < limit
  /\ Len(wishes) < inFlight
  /\ Len(timers) < inFlight
  /\ sent' = sent + 1
  /\ wishes' = Append(wishes, [id |-> sent + 1, text |-> 0])
  /\ singleWish' = Mounted(wishes')
  /\ UNCHANGED <<gestureVars, last, floatingWishes, flashTrigger, timers>>

\* handleRefreshWishes: the picked texts replace the floating wishes.
handleRefreshWishes(pool, r, k) ==
  /\ LET selected == pickFiveFromPool(pool, r, k)
     IN floatingWishes' = [i \in 1..Len(selected) |-> toWish(selected[i], i)]
  /\ UNCHANGED <<gestureVars, last, wishes, flashTrigger, singleWish, timers, sent>>

\* handleClearWishes: both lists are emptied; the SingleWish components
\* unmount, the timers they have set stay.
handleClearWishes ==
  /\ wishes' = <<>>
  /\ floatingWishes' = <<>>
  /\ singleWish' = Mounted(wishes')
  /\ UNCHANGED <<gestureVars, last, flashTrigger, timers, sent>>

\* A SingleWish that does not set its completion flag.
MarkCompletedForgets(ref) == ref

\* `isCompletedRef.current = true`
MarkCompleted(ref) == [ref EXCEPT !.isCompleted = TRUE]

\* The useFrame callback of a SingleWish; done tells whether the 2 seconds
\* of the animation have passed since the frame that set startTimeRef.
useFrame(ref, done) ==
  IF ref.isCompleted THEN [ref |-> ref, report |-> FALSE]
  ELSE IF ~ref.started
       THEN [ref |-> [ref EXCEPT !.started = TRUE], report |-> FALSE]
       ELSE IF done THEN [ref |-> MarkCompleted(ref), report |-> TRUE]
            ELSE [ref |-> ref, report |-> FALSE]

\* A frame of the mounted SingleWish of the wish id.
WishFrame(id, done) ==
  /\ id \in DOMAIN singleWish
  /\ LET r == useFrame(singleWish[id], done)
         wish == CHOOSE w \in Range(wishes) : w.id = id
     IN /\ singleWish' = [singleWish EXCEPT ![id] = r.ref]
        /\ timers' = IF r.report THEN Append(timers, wish) ELSE timers
  /\ UNCHANGED <<gestureVars, last, wishes, floatingWishes, flashTrigger, sent>>

\* The oldest timer fires: `() => onComplete(wish)`.
WishTimeout ==
  /\ timers # <<>>
  /\ LET wish == Head(timers)
         r == handleWishComplete(wish)
     IN /\ wishes' = r.wishes
        /\ floatingWishes' = r.floatingWishes
        /\ flashTrigger' = r.flashTrigger
  /\ timers' = Tail(timers)
  /\ singleWish' = Mounted(wishes')
  /\ UNCHANGED <<gestureVars, last, sent>>

\* The wishes alone: the gesture pipeline is not activated.
NextWishes ==
  \/ handleSendWish(MaxWishes, MaxInFlight)
  \/ \E pool \in Pools, r \in Draws, k \in Draws : handleRefreshWishes(pool, r, k)
  \/ handleClearWishes
  \/ \E id \in DOMAIN singleWish, done \in BOOLEAN : WishFrame(id, done)
  \/ WishTimeout

SpecWishes == Init /\ [][NextWishes]_vars

\* Wishes sent one after the other, as many as it takes to fill the floating
\* wishes after a refresh and MaxWishes more.
NextFloating ==
  \/ handleSendWish(FloatingLimit - PickLimit + MaxWishes, 1)
  \/ \E pool \in Pools, r \in Draws, k \in Draws : handleRefreshWishes(pool, r, k)
  \/ handleClearWishes
  \/ \E id \in DOMAIN singleWish, done \in BOOLEAN : WishFrame(id, done)
  \/ WishTimeout

SpecFloating == Init /\ [][NextFloating]_vars


TypeOK ==
  /\ hasRVFC \in BOOLEAN
  /\ videoRef \in {"el", "null"}
  /\ srcObject \in {0} \cup Sessions
  /\ pinchCount \in 0..MaxCount
  /\ openCount \in 0..MaxCount
  /\ mode \in {"TREE", "EXPLODE"}
  /\ gestureState \in [isHandDetected : BOOLEAN, isPinching : BOOLEAN, isOpen : BOOLEAN,
                       handPosition : [x : 0..One, y : 0..One],
                       rotationOffset : (0 - One)..One]
  /\ pc \in [Sessions -> {"idle", "vision", "model", "stream", "play", "pump", "end"}]
  /\ isMounted \in [Sessions -> BOOLEAN]
  /\ handLandmarker \in [Sessions -> {"null", "ref"}]
  /\ requestId \in [Sessions -> {0, 1}]
  /\ rvfc \in [Sessions -> Nat]
  /\ raf \in [Sessions -> Nat]
  /\ loads \in [Sessions -> Nat]
  /\ model \in [Sessions -> {"none", "open", "closed"}]
  /\ stream \in [Sessions -> {"none", "live", "ended"}]
  /\ tornDown \in [Sessions -> BOOLEAN]

----------------------------------------------------------------------------
(* Properties.                                                              *)

\* last describes a pass that found a hand and published.
HandPass == last.h = "FrameCallback" /\ last.kind = "hand"

\* C1: a hand-present pass with instantPinch whose preceding counter-updating
\* pass had no instantPinch (or found no hand, or there was none) publishes
\* isPinching = false; from the 2nd pass of a run of instantPinch passes on,
\* every pass publishes isPinching = true.
PinchHysteresis ==
  (HandPass /\ last.pinch) =>
     /\ Len(last.pub) = 1
     /\ last.pub[1].isPinching = (run.pinch >= 2)
     /\ gestureState.isPinching = (run.pinch >= 2)

PinchHysteresisWitness ==
  HandPass /\ last.pinch /\ run.pinch = 3 /\ gestureState.isPinching

\* C2: a hand-present pass with instantPinch that either has no instantOpen, or
\* has it while the preceding counter-updating pass had none (the isolated
\* noisy frame), does not call onModeTrigger(EXPLODE) and does not turn the
\* mode into EXPLODE.
NoiseImmunity ==
  [][ (last'.h = "FrameCallback" /\ last'.kind = "hand" /\ last'.pinch
         /\ (~last'.open \/ run'.open = 1))
      => /\ "EXPLODE" \notin Range(last'.trig)
         /\ mode' = "EXPLODE" => mode = "EXPLODE" ]_vars

NoiseImmunityWitness ==
  HandPass /\ last.pinch /\ last.open /\ run.open = 1 /\ run.pinch >= 2

\* C3: a pass after which both counters are at 2 or more calls
\* onModeTrigger(TREE), does not call onModeTrigger(EXPLODE), and leaves the
\* mode at TREE.
TieBreak ==
  (HandPass /\ pinchCount >= 2 /\ openCount >= 2) =>
     last.trig = <<"TREE">> /\ mode = "TREE"

TieBreakWitness == HandPass /\ pinchCount >= 2 /\ openCount >= 2

\* The calls by which a pass reaches the model or the App.
Publishing == {"detectForVideo", "onStateChange", "onModeTrigger"}

\* C4: a handler of a session that runs after the cleanup of that session
\* makes no inference call and calls neither onStateChange nor onModeTrigger,
\* and the cleanup itself does not throw.
NoPublicationAfterTeardown ==
  /\ last.td => /\ Range(last.calls) \cap Publishing = {}
                /\ last.pub = <<>>
                /\ last.trig = <<>>
  /\ last.h = "Teardown" => "throw" \notin Range(last.calls)

NoPublicationAfterTeardownWitness ==
  last.h = "FrameCallback" /\ last.td /\ last.kind = "dead"

\* The activation chain of session s has no continuation outstanding.
Settled(s) == pc[s] \in {"pump", "end"}

\* C5: once the cleanup of a session has run and its activation chain has no
\* continuation outstanding, no callback of its pump is registered.
PumpCancelled ==
  \A s \in Sessions : (tornDown[s] /\ Settled(s)) => (rvfc[s] = 0 /\ raf[s] = 0)

\* C6: once the cleanup of a session has run and its activation chain has no
\* continuation outstanding, the track of the stream it acquired is not live.
StreamReleased ==
  \A s \in Sessions : (tornDown[s] /\ Settled(s)) => stream[s] # "live"

\* C7: once the cleanup of a session has run and its activation chain has no
\* continuation outstanding, the model instance it created is not open.
ModelReleased ==
  \A s \in Sessions : (tornDown[s] /\ Settled(s)) => model[s] # "open"

\* C8: the track of a session's stream is stopped at most once and its model
\* closed at most once, and exactly once each when the session that acquired
\* both has been torn down and has no continuation outstanding.
ExactlyOnceRelease ==
  \A s \in Sessions :
     /\ stopCalls[s] <= 1
     /\ closeCalls[s] <= 1
     /\ (tornDown[s] /\ Settled(s) /\ stream[s] # "none" /\ model[s] # "none")
           => (stopCalls[s] = 1 /\ closeCalls[s] = 1)

\* The state a cleanup leaves, without the record of the calls it made.
Effect(v) == [v EXCEPT !.calls = <<>>]

\* C9: running the cleanup of a session a second time, whatever point the
\* activation had reached, throws nothing and changes nothing: no further
\* stop of a track, no further close of the model, the same state.
TeardownIdempotent ==
  \A s \in Sessions :
     pc[s] # "idle" =>
        LET once == Cleanup(CleanupView(s))
            twice == Cleanup(Effect(once))
        IN /\ ~Threw(once)
           /\ ~Threw(twice)
           /\ Effect(twice) = Effect(once)

\* C10 as stated: in a run of instantPinch passes onModeTrigger(TREE) is called
\* on the 2nd pass of the run and on no other.
SingleTriggerPerRun ==
  (HandPass /\ last.pinch) =>
     (("TREE" \in Range(last.trig)) <=> run.pinch = 2)

\* C10 amended: in a run of instantPinch passes onModeTrigger(TREE) is called
\* exactly once by the 2nd pass and by every later pass of the run, and not by
\* the 1st.
TriggerOnEveryStablePass ==
  (HandPass /\ last.pinch) =>
     /\ run.pinch >= 2 => last.trig = <<"TREE">>
     /\ run.pinch = 1 => "TREE" \notin Range(last.trig)

TriggerOnEveryStablePassWitness ==
  HandPass /\ last.pinch /\ run.pinch = 3 /\ last.trig = <<"TREE">>

\* The number of times x occurs in the sequence q.
Count(q, x) == Cardinality({k \in 1..Len(q) : q[k] = x})

\* C11: of two consecutive hand-present passes with instantOpen and without
\* instantPinch that start from openCount = 0, the 1st calls onModeTrigger not
\* at all and the 2nd calls onModeTrigger(EXPLODE) once and nothing else, which
\* leaves the mode at EXPLODE.
OpenScenario ==
  (HandPass /\ last.open /\ ~last.pinch) =>
     /\ run.open = 1 => last.trig = <<>>
     /\ run.open = 2 => /\ last.trig = <<"EXPLODE">>
                        /\ Count(last.calls, "onModeTrigger") = 1
                        /\ mode = "EXPLODE"

OpenScenarioWitness ==
  HandPass /\ last.open /\ ~last.pinch /\ run.open = 2 /\ mode = "EXPLODE"

\* C12: a frame callback calls onModeTrigger at most once, and only in a pass
\* that found a hand and left pinchCount or openCount at 2 or more.
TriggerOnlyWhenStable ==
  last.h = "FrameCallback" =>
     /\ Len(last.trig) <= 1
     /\ Count(last.calls, "onModeTrigger") = Len(last.trig)
     /\ last.trig # <<>> => (last.kind = "hand" /\ (pinchCount >= 2 \/ openCount >= 2))
     /\ (last.kind = "hand" /\ pinchCount < 2 /\ openCount < 2) => last.trig = <<>>

TriggerOnlyWhenStableWitness ==
  HandPass /\ last.trig = <<"EXPLODE">> /\ pinchCount = 1 /\ openCount >= 2

\* C13: a no-hand pass leaves pinchCount and openCount at 0 and publishes
\* exactly {isHandDetected: false}, whatever the counters were before (0
\* included, so a second no-hand pass changes nothing).
NoHandResets ==
  (last.h = "FrameCallback" /\ last.kind = "nohand") =>
     /\ pinchCount = 0
     /\ openCount = 0
     /\ last.pub = <<[isHandDetected |-> FALSE]>>
     /\ ~gestureState.isHandDetected

\* The streaks that made isPinching and isOpen true have been reset.
NoHandResetsWitness ==
  /\ last.h = "FrameCallback" /\ last.kind = "nohand"
  /\ pinchCount = 0 /\ openCount = 0
  /\ gestureState.isPinching /\ gestureState.isOpen

\* C14: a no-hand pass changes isHandDetected and no other field of the
\* gesture state; a hand-present pass publishes all five fields and the
\* gesture state is what it published.
MergeOnNoHand ==
  [][ /\ (last'.h = "FrameCallback" /\ last'.kind = "nohand")
         => gestureState' = [gestureState EXCEPT !.isHandDetected = FALSE]
      /\ (last'.h = "FrameCallback" /\ last'.kind = "hand")
         => /\ DOMAIN last'.pub[1] = DOMAIN DefaultGestureState
            /\ gestureState' = last'.pub[1] ]_vars

MergeOnNoHandWitness ==
  /\ last.h = "FrameCallback" /\ last.kind = "nohand"
  /\ ~gestureState.isHandDetected
  /\ gestureState.isPinching
  /\ gestureState.handPosition.x # Half
  /\ gestureState.handPosition.y # Half
  /\ gestureState.rotationOffset # 0

\* The two calls that register a callback of the pump.
Registrations == {"requestVideoFrameCallback", "requestAnimationFrame"}

\* The number of registrations among the calls of the last handler.
Registered == Cardinality({k \in 1..Len(last.calls) : last.calls[k] \in Registrations})

\* C15: a pass whose inference call throws calls neither onStateChange nor
\* onModeTrigger, leaves pinchCount, openCount, the gesture state and the mode
\* as they were, lets no exception out of the callback, and registers exactly
\* one next callback.
InferenceExceptionSwallowed ==
  [][ (last'.h = "FrameCallback" /\ last'.kind = "throw")
      => /\ pinchCount' = pinchCount
         /\ openCount' = openCount
         /\ gestureState' = gestureState
         /\ mode' = mode
         /\ last'.pub = <<>>
         /\ last'.trig = <<>>
         /\ Range(last'.calls) \cap {"onStateChange", "onModeTrigger", "throw"} = {}
         /\ Registered' = 1
         /\ rvfc'[last'.s] + raf'[last'.s] = 1 ]_vars

InferenceExceptionSwallowedWitness ==
  /\ last.h = "FrameCallback" /\ last.kind = "throw"
  /\ pinchCount >= 1
  /\ gestureState.isHandDetected
  /\ rvfc[last.s] = 1

\* C16: a pass of a live session that finds readyState < 2 makes no inference
\* call, publishes nothing, leaves pinchCount, openCount, the gesture state
\* and the mode as they were, throws nothing, and registers exactly one next
\* callback, with either pump.
NotReadySkip ==
  [][ (last'.h = "FrameCallback" /\ last'.kind = "skip")
      => /\ pinchCount' = pinchCount
         /\ openCount' = openCount
         /\ gestureState' = gestureState
         /\ mode' = mode
         /\ last'.calls = <<IF hasRVFC THEN "requestVideoFrameCallback"
                                      ELSE "requestAnimationFrame">>
         /\ rvfc'[last'.s] + raf'[last'.s] = 1 ]_vars

NotReadySkipWitness ==
  /\ last.h = "FrameCallback" /\ last.kind = "skip"
  /\ ~hasRVFC
  /\ raf[last.s] = 1
  /\ openCount >= 1

\* Session s has ended with its model never created: a load step failed.
InitFailed(s) == pc[s] = "end" /\ model[s] = "none"

\* C17: when a step of the model load fails the chain ends there with a report
\* and nothing else; createFromOptions is called at most once per session; a
\* session whose load failed never holds a stream or a pump callback and runs
\* no further handler but its cleanup; its own steps leave mode and gesture
\* state alone; and while no session got past the load, gesture state and
\* counters are at their defaults.
InitFailureInert ==
  [][ /\ (last'.h \in {"VisionResolved", "ModelResolved"} /\ ~last'.ok)
         => (pc'[last'.s] = "end" /\ last'.calls = <<"console.error">>)
      /\ \A s \in Sessions :
           /\ loads'[s] <= 1
           /\ InitFailed(s)' =>
                /\ stream'[s] = "none"
                /\ srcObject' # s
                /\ rvfc'[s] = 0 /\ raf'[s] = 0 /\ requestId'[s] = 0
                /\ last'.s = s => last'.h \in {"VisionResolved", "ModelResolved", "Teardown"}
           /\ (last'.s = s /\ (InitFailed(s)' \/ pc'[s] \in {"vision", "model"}))
                => (mode' = mode /\ gestureState' = gestureState)
      /\ (\A s \in Sessions : pc'[s] \in {"idle", "vision", "model"} \/ InitFailed(s)')
         => /\ gestureState' = DefaultGestureState
            /\ pinchCount' = 0
            /\ openCount' = 0 ]_vars

InitFailureInertWitness ==
  /\ last.h = "ModelResolved" /\ ~last.ok /\ ~last.td
  /\ InitFailed(last.s)
  /\ loads[last.s] = 1

\* C18: when the stream request or play() fails the chain ends there with a
\* report and nothing else; a session whose chain has ended holds no pump
\* callback and runs no frame callback; and while no session has started its
\* pump the gesture state is the default one, isHandDetected = false.
DeviceFailureInert ==
  /\ (last.h \in {"StreamResolved", "PlayResolved"} /\ ~last.ok)
        => (pc[last.s] = "end" /\ last.calls = <<"console.error">>)
  /\ \A s \in Sessions :
        pc[s] = "end" =>
           /\ rvfc[s] = 0 /\ raf[s] = 0 /\ requestId[s] = 0
           /\ last.s = s => last.h # "FrameCallback"
  /\ (\A s \in Sessions : pc[s] # "pump")
        => (~gestureState.isHandDetected /\ gestureState = DefaultGestureState)

DeviceFailureInertWitness ==
  /\ last.h = "PlayResolved" /\ ~last.ok /\ ~last.td
  /\ pc[last.s] = "end"
  /\ stream[last.s] = "live"

\* C19: getUserMedia is called only by the continuation of a successful model
\* load, play() only by that of a successful stream request, with the stream
\* attached, and the first callback of the pump is registered only by the
\* continuation of a successful play(); a session is never ahead of a step it
\* has not completed.
ActivationOrder ==
  /\ \A s \in Sessions :
        /\ pc[s] \in {"stream", "play", "pump"} => model[s] # "none"
        /\ model[s] # "none" => loads[s] = 1
        /\ stream[s] # "none" => model[s] # "none"
        /\ pc[s] \in {"play", "pump"} => stream[s] # "none"
        /\ (rvfc[s] > 0 \/ raf[s] > 0 \/ requestId[s] # 0) => pc[s] = "pump"
  /\ "createFromOptions" \in Range(last.calls)
        => (last.h = "VisionResolved" /\ last.ok)
  /\ "getUserMedia" \in Range(last.calls)
        => (last.h = "ModelResolved" /\ last.ok /\ model[last.s] = "open")
  /\ "play" \in Range(last.calls)
        => (last.h = "StreamResolved" /\ last.ok /\ srcObject = last.s
            /\ stream[last.s] = "live")
  /\ (Registered > 0 /\ last.h # "FrameCallback")
        => (last.h = "PlayResolved" /\ last.ok /\ stream[last.s] # "none")
  /\ last.h = "FrameCallback" => pc[last.s] = "pump"

ActivationOrderWitness ==
  /\ last.h = "PlayResolved" /\ last.ok
  /\ pc[last.s] = "pump"
  /\ model[last.s] = "open"
  /\ stream[last.s] = "live"
  /\ srcObject = last.s

\* C20: a session never has more than one pump callback registered and at
\* most one session is live, so at most one pump loop runs; a frame callback
\* makes at most one inference call and registers at most one next callback,
\* as the last thing it does, after the publications of its pass.
PassesSerialized ==
  /\ \A s \in Sessions : rvfc[s] + raf[s] <= 1
  /\ Cardinality({s \in Sessions : isMounted[s]}) <= 1
  /\ last.h = "FrameCallback" =>
        /\ Count(last.calls, "detectForVideo") <= 1
        /\ Registered <= 1
        /\ Registered = 1 => last.calls[Len(last.calls)] \in Registrations

PassesSerializedWitness ==
  /\ HandPass
  /\ last.calls = <<"detectForVideo", "onStateChange", "onModeTrigger",
                    "requestVideoFrameCallback">>
  /\ rvfc[last.s] = 1

\* C21: the mode starts as TREE, and a step changes it only if it is the
\* manual toggle or a hand pass whose streak has reached two frames: to TREE
\* when the pinch streak has, to EXPLODE when the open streak has and the
\* pinch streak has not.  A first confirming frame changes nothing.
ModeChangesOnlyOnStable ==
  /\ mode = "TREE"
  /\ [][ mode' # mode
         => \/ last'.h = "toggleMode"
            \/ /\ last'.h = "FrameCallback" /\ last'.kind = "hand"
               /\ \/ run'.pinch >= 2 /\ mode' = "TREE"
                  \/ run'.open >= 2 /\ run'.pinch < 2 /\ mode' = "EXPLODE" ]_vars

ModeChangesOnlyOnStableWitness ==
  /\ HandPass
  /\ last.pinch /\ run.pinch = 1
  /\ run.open < 2
  /\ mode = "EXPLODE"

\* C22: a manual toggle flips whatever the mode is, a pass leaves the mode at
\* the value of its last onModeTrigger call whatever the mode was, and a pass
\* without a trigger leaves the mode as it found it: the mode is the result
\* of the calls in the order they were made.
LastWriterWins ==
  [][ /\ last'.h = "toggleMode"
         => mode' = (IF mode = "TREE" THEN "EXPLODE" ELSE "TREE")
      /\ last'.h = "FrameCallback"
         => mode' = (IF last'.trig = <<>> THEN mode
                     ELSE last'.trig[Len(last'.trig)]) ]_vars

LastWriterWinsWitness ==
  /\ last.h = "toggleMode"
  /\ mode = "TREE"
  /\ run.open >= 2 /\ run.pinch = 0
  /\ gestureState.isOpen /\ ~gestureState.isPinching

\* C23 as stated: every change of the gesture state or of the mode is made by
\* a frame callback.  The manual toggle of App changes the mode.
SingleWriter ==
  [][ (gestureState' # gestureState \/ mode' # mode)
      => last'.h = "FrameCallback" ]_vars

\* C23, amended: the gesture state changes only in a frame callback whose
\* pass called onStateChange; the mode changes only in a frame callback whose
\* pass called onModeTrigger or in the manual toggle.
WritersOfState ==
  [][ /\ gestureState' # gestureState
         => (last'.h = "FrameCallback" /\ last'.pub # <<>>)
      /\ mode' # mode
         => \/ last'.h = "toggleMode"
            \/ last'.h = "FrameCallback" /\ last'.trig # <<>> ]_vars

WritersOfStateWitness ==
  /\ last.h = "toggleMode"
  /\ mode = "EXPLODE"
  /\ gestureState.isHandDetected
  /\ gestureState.isPinching

\* The squared distance of two keypoints, and their distance where it is a
\* whole number.
Dist2(p, q) == (p.x - q.x) * (p.x - q.x) + (p.y - q.y) * (p.y - q.y)

Distance(p, q) == CHOOSE r \in 0..(2 * One) : r * r = Dist2(p, q)

\* C24: for the keypoints of every hand pass, instantPinch is true exactly
\* when distance(thumbTip, indexTip) < 0.65 * distance(wrist, indexMCP)
\* (compared as squares: 0.65^2 = 0.4225) and instantOpen exactly when the
\* four distances of the finger tips from the wrist sum to more than
\* 4 * 1.8 * distance(wrist, indexMCP), whatever the counters hold.
ClassifierReference ==
  HandPass =>
    /\ last.pinch <=>
         Dist2(last.lm[4], last.lm[8]) * 10000 < 4225 * Dist2(last.lm[0], last.lm[9])
    /\ last.open <=>
         10 * (Distance(last.lm[8], last.lm[0]) + Distance(last.lm[12], last.lm[0])
               + Distance(last.lm[16], last.lm[0]) + Distance(last.lm[20], last.lm[0]))
           > 72 * Distance(last.lm[0], last.lm[9])

\* A hand exactly on the pinch threshold: thumb and index tip 13 apart, the
\* palm 20, neither along an axis.
ClassifierReferenceWitness ==
  /\ HandPass
  /\ last.lm[0] = Point(14, 20) /\ last.lm[9] = Point(2, 4)
  /\ last.lm[8] = Point(14, 11) /\ last.lm[4] = Point(2, 6)
  /\ ~last.pinch /\ ~last.open
  /\ pinchCount = 0
  /\ gestureState.isHandDetected /\ ~gestureState.isPinching

\* C25: a hand pass publishes handPosition.x = 1 - x for the index-MCP x of
\* its frame and rotationOffset = 2 * handPosition.x - 1, which lies between
\* -1 and 1 and is 0 for x = 0.5; of two successive hand passes the one with
\* the larger x publishes the smaller handPosition.x and rotationOffset.
SignalMapping ==
  [][ (last'.h = "FrameCallback" /\ last'.kind = "hand")
      => /\ gestureState'.handPosition.x = One - last'.lm[9].x
         /\ gestureState'.rotationOffset = 2 * gestureState'.handPosition.x - One
         /\ gestureState'.rotationOffset \in (0 - One)..One
         /\ last'.lm[9].x = Half => gestureState'.rotationOffset = 0
         /\ (HandPass /\ last'.lm[9].x > last.lm[9].x)
            => /\ gestureState'.handPosition.x < gestureState.handPosition.x
               /\ gestureState'.rotationOffset < gestureState.rotationOffset ]_vars

SignalMappingWitness ==
  /\ HandPass
  /\ last.lm[9].x = 0
  /\ gestureState.handPosition.x = One
  /\ gestureState.rotationOffset = One

\* C26: a frame callback calls onStateChange at most once; what it passes
\* is either all five fields with isHandDetected = true or exactly
\* {isHandDetected: false}; a hand pass and a no-hand pass call it once, a
\* skipped pass, a pass whose inference threw and a callback of a session
\* that is no longer live not at all.
PublishOncePerPass ==
  last.h = "FrameCallback" =>
     /\ Count(last.calls, "onStateChange") <= 1
     /\ Len(last.pub) = Count(last.calls, "onStateChange")
     /\ \A k \in 1..Len(last.pub) :
           \/ /\ DOMAIN last.pub[k] = DOMAIN DefaultGestureState
              /\ last.pub[k].isHandDetected
           \/ last.pub[k] = [isHandDetected |-> FALSE]
     /\ last.kind = "hand" => (Len(last.pub) = 1 /\ last.pub[1].isHandDetected)
     /\ last.kind = "nohand" => last.pub = <<[isHandDetected |-> FALSE]>>
     /\ last.kind \in {"skip", "throw", "dead", "noref"} => last.pub = <<>>

PublishOncePerPassWitness ==
  /\ last.h = "FrameCallback" /\ last.kind = "skip"
  /\ last.pub = <<>>
  /\ gestureState.isHandDetected /\ gestureState.isOpen
  /\ openCount = 3

\* C27: pinchCount and openCount are natural numbers and equal the lengths
\* of the current streaks of hand passes with instantPinch, with instantOpen;
\* a hand pass moves each counter by its own condition alone; only a pass
\* that got a result from the inference call changes a counter.
CounterSemantics ==
  [][ /\ pinchCount' \in Nat /\ openCount' \in Nat
      /\ pinchCount' = run'.pinch
      /\ openCount' = run'.open
      /\ (last'.h = "FrameCallback" /\ last'.kind = "hand")
         => /\ pinchCount' = (IF last'.pinch THEN pinchCount + 1 ELSE 0)
            /\ openCount' = (IF last'.open THEN openCount + 1 ELSE 0)
      /\ (pinchCount' # pinchCount \/ openCount' # openCount)
         => (last'.h = "FrameCallback" /\ last'.kind \in {"hand", "nohand"}) ]_vars

CounterSemanticsWitness ==
  /\ HandPass
  /\ last.pinch /\ ~last.open
  /\ pinchCount = 3 /\ run.pinch = 3
  /\ openCount = 0
  /\ gestureState.isOpen = FALSE

\* C29: a no-hand pass, a skipped pass and a pass whose inference threw make
\* no call of onModeTrigger and leave the mode as it was, EXPLODE included;
\* no handler other than a frame callback and the manual toggle changes the
\* mode (the program sets no timer).
NoAutomaticTransition ==
  [][ /\ (last'.h = "FrameCallback" /\ last'.kind \in {"nohand", "skip", "throw"})
         => /\ last'.trig = <<>>
            /\ "onModeTrigger" \notin Range(last'.calls)
            /\ mode' = mode
      /\ last'.h \notin {"FrameCallback", "toggleMode"} => mode' = mode ]_vars

NoAutomaticTransitionWitness ==
  /\ last.h = "FrameCallback" /\ last.kind = "nohand"
  /\ mode = "EXPLODE"
  /\ ~gestureState.isHandDetected
  /\ gestureState.isOpen

\* The pump of the single activation has started and its cleanup has not run.
Pumping == pc[1] = "pump" /\ ~tornDown[1]

TimestampsIncrease ==
  [][ ( /\ last.h = "FrameCallback" /\ "detectForVideo" \in Range(last.calls)
        /\ last'.h = "FrameCallback" /\ "detectForVideo" \in Range(last'.calls)
        /\ last'.s = last.s )
      => last'.dt > 0 ]_vars

\* C31: the counters belong to the session: while an activation has not yet
\* started its pump, so that its first pass is still to come, pinchCount and
\* openCount are both 0, for the activation that follows a cleanup too.
\* stateHistory is a ref of the component and neither the effect nor its
\* cleanup assigns it.
CountersScopedToSession ==
  \A s \in Sessions :
     pc[s] \in {"vision", "model", "stream", "play"} =>
        (pinchCount = 0 /\ openCount = 0)

\* C32: whenever the published gesture state has isHandDetected, its
\* isPinching is (pinchCount >= 2) and its isOpen is (openCount >= 2), with
\* the counters as they are now.
PublishedMatchesCounters ==
  gestureState.isHandDetected =>
     /\ gestureState.isPinching = (pinchCount >= 2)
     /\ gestureState.isOpen = (openCount >= 2)

\* A pass whose inference threw has left the published state and the
\* counters of a stable pinch as they were.
PublishedMatchesCountersWitness ==
  /\ last.h = "FrameCallback" /\ last.kind = "throw"
  /\ gestureState.isHandDetected
  /\ gestureState.isPinching /\ ~gestureState.isOpen
  /\ pinchCount >= 2 /\ openCount = 0

\* C33: the first hand-present pass after a no-hand pass publishes neither
\* isPinching nor isOpen and does not call onModeTrigger, whatever the
\* streaks before the no-hand pass were and whatever the hand shows.
FirstPassAfterNoHand ==
  [][ ( /\ last.h = "FrameCallback" /\ last.kind = "nohand"
        /\ last'.h = "FrameCallback" /\ last'.kind = "hand" )
      => /\ Len(last'.pub) = 1
         /\ ~last'.pub[1].isPinching
         /\ ~last'.pub[1].isOpen
         /\ last'.trig = <<>>
         /\ ~gestureState'.isPinching
         /\ ~gestureState'.isOpen
         /\ mode' = mode ]_vars

\* A stable pinch had set the mode to TREE; the hand came back showing both
\* gestures at once: both streaks are 1, nothing is stable, the mode stays.
FirstPassAfterNoHandWitness ==
  /\ HandPass /\ last.pinch /\ last.open
  /\ run.pinch = 1 /\ run.open = 1
  /\ pinchCount = 1 /\ openCount = 1
  /\ ~gestureState.isPinching /\ ~gestureState.isOpen
  /\ last.trig = <<>>
  /\ mode = "TREE"

\* A timer fires and handleWishComplete handles the wish it holds.
Completion == timers # <<>> /\ timers' = Tail(timers)

\* A refresh installs a list.
Refreshed ==
  /\ timers' = timers
  /\ floatingWishes' # floatingWishes
  /\ floatingWishes' # <<>>

\* C34: floatingWishes never holds more than 15 entries; a completion
\* appends the wish and, beyond 15, drops the oldest entries, so that the
\* newest 15 stay in their order; a refresh installs at most 5 entries.
FloatingBound ==
  /\ [](Len(floatingWishes) <= 15)
  /\ [][ Completion =>
           LET next == Append(floatingWishes, Head(timers))
               n == Len(next)
               m == Len(floatingWishes')
           IN /\ m = (IF n > 15 THEN 15 ELSE n)
              /\ \A k \in 1..m : floatingWishes'[k] = next[n - m + k] ]_vars
  /\ [][ Refreshed => Len(floatingWishes') <= 5 ]_vars

\* Five wishes of a refresh and eleven completions: the first wish of the
\* refresh has been dropped, the eleventh completed wish is the last entry.
FloatingBoundWitness ==
  /\ Len(floatingWishes) = 15
  /\ floatingWishes[1].id = 0 - 2
  /\ floatingWishes[4].id = 0 - 5
  /\ floatingWishes[5].id = 1
  /\ floatingWishes[15].id = 11
  /\ flashTrigger = 11

\* The ids of a list of wishes are pairwise different.
DistinctIds(q) == \A i, j \in 1..Len(q) : q[i].id = q[j].id => i = j

\* C35: a wish is reported complete at most once: no wish has two reports
\* pending, the SingleWish of a wish whose report is pending has its
\* completion flag set, a wish among the floating wishes is neither in
\* flight nor pending, and the flash counter does not exceed the wishes
\* sent.  Handling a completion removes that wish, and no other, from the
\* wishes in flight, makes it the last of the floating wishes and adds 1 to
\* the flash counter; nothing else changes the flash counter.
WishLifecycle ==
  /\ [](/\ DistinctIds(timers)
        /\ DistinctIds(floatingWishes)
        /\ \A k \in 1..Len(timers) :
              timers[k].id \in DOMAIN singleWish =>
                 singleWish[timers[k].id].isCompleted
        /\ \A k \in 1..Len(floatingWishes) :
              floatingWishes[k].id \notin (Ids(wishes) \cup Ids(timers))
        /\ flashTrigger <= sent)
  /\ [][ Completion =>
           LET w == Head(timers)
           IN /\ w.id \notin Ids(wishes')
              /\ w.id \notin Ids(timers')
              /\ wishes' = SelectSeq(wishes, LAMBDA v : v # w)
              /\ floatingWishes' # <<>>
              /\ floatingWishes'[Len(floatingWishes')] = w
              /\ flashTrigger' = flashTrigger + 1 ]_vars
  /\ [][ ~Completion => flashTrigger' = flashTrigger ]_vars

\* The second wish has completed while the first is still in flight.
WishLifecycleWitness ==
  /\ flashTrigger = 1
  /\ Ids(wishes) = {1}
  /\ singleWish[1].started /\ ~singleWish[1].isCompleted
  /\ Len(floatingWishes) = 1
  /\ floatingWishes[1].id = 2
  /\ timers = <<>>

====
